---- MODULE Spec2Model ----
(***************************************************************************)
(* Model of the signaling server of src/server.js: the `rooms` Map, the    *)
(* socket.io adapter rooms that socket.join / socket.to / io.to work on,   *)
(* and the four event handlers of a connection (join-room, signal, frame,  *)
(* disconnect).                                                            *)
(*                                                                         *)
(* Identifiers.  Socket ids and room ids are both strings chosen from one  *)
(* name space: socket.io puts every socket into the adapter room named by  *)
(* its own id, and a client may send any string as roomId.  Ids are        *)
(* modelled as integers: connection ids are 1..NumConns, room ids are      *)
(* 1..NumRoomIds, and only the number 1 is shared: room id 1 is the same   *)
(* string as the id of connection 1, every other room id is a name that no *)
(* connection has (see RoomName).  While connection 1 is not connected,    *)
(* room 1 is an ordinary room as well.                                     *)
(*                                                                         *)
(* Handlers run to completion (one JavaScript event loop), so one handler  *)
(* run is one step.  socket.io dispatches events of connected sockets      *)
(* only, and a socket id is never handed out twice.                        *)
(*                                                                         *)
(* Specifications.  Spec runs the registry handlers on the events          *)
(* themselves; SpecTwice adds a disconnect reported twice; SpecRelay adds  *)
(* signal, frame and the events the handlers are not written for;          *)
(* SpecWire puts the channels between clients and server in between.       *)
(* SpecFfmpeg and SpecSimple are the host programs host-ffmpeg.js and      *)
(* host-simple.js, each a process of its own with its socket.io client.    *)
(***************************************************************************)
EXTENDS Integers, Sequences, FiniteSets, TLC

\* ---- bounds ------------------------------------------------------------
NumConns == 2
NumRoomIds == 2
MaxViewers == 2
NumPayloads == 1
\* the events the clients emit in one run of the transport model
MaxEmits == 3
\* the ffmpeg children a host spawns, the capture loops it starts and the
\* frames it emits in one run of a host model
MaxProcs == 3
MaxLoops == 2
MaxFrames == 2

\* ---- values ------------------------------------------------------------
\* JavaScript null / undefined (room.host = null, a missing field)
NULL == -1

Conns == 1..NumConns
RoomIds == 1..NumRoomIds

\* adapter room names: the socket ids and the room ids.  A name is a pair
\* <<kind, n>>; the name of room id 1 is the name of connection 1.
ConnName(c) == <<"id", c>>
RoomName(r) == IF r = 1 THEN <<"id", 1>> ELSE <<"room", r>>
Names == {ConnName(c) : c \in Conns} \cup {RoomName(r) : r \in RoomIds}
\* no name: socket.emit addresses no adapter room; a missing `to` field
NoName == <<"none", 0>>
\* the role field of a join-room event: anything that is not "host" takes
\* the else branch
Roles == {"host", "viewer", "other"}
Payloads == 1..NumPayloads

VARIABLES
    status,   \* status[c]: "new" (id not yet handed out), "open", "closed";
              \* "down" once the server process has ended
    rooms,    \* the Map `rooms`: roomId -> { host, viewers }
    sio,      \* socket.io adapter: sio[name] = set of sockets in the room `name`
    exceptRooms, \* the installed socket.io treats the sender id of socket.to as a room
    sent,     \* the emits of the last handler run, in the order they were issued
    last,     \* the event the last handler run processed
    inq,      \* inq[c]: the events client c has emitted and the server has not
              \* handled yet, oldest first
    outq,     \* outq[c]: the messages written to socket c that its client has
              \* not received yet, oldest first
    got,      \* got[c]: the messages client c has received, oldest first
    emits,    \* the number of events the clients have emitted
    tick,     \* the number of handler runs that took an event from a channel
    link,     \* a host program's socket: "down", "up", or "exited" with the program
    connected,       \* `connected` of host-ffmpeg.js and host-simple.js
    viewerSocketId,  \* `viewerSocketId` of host-ffmpeg.js and host-simple.js
    frame,    \* the last frame event a host emitted: its source, target, number
    ffmpegProcess,   \* `ffmpegProcess` of host-ffmpeg.js: null or a child
    procs,    \* procs[p]: the state of the p-th child spawned by host-ffmpeg.js
    capturing,       \* `capturing` of host-simple.js
    loops     \* loops[l]: where the captureLoop of the l-th startCapture stands

\* the connection between a client and its socket, in both directions
wire == <<inq, outq, got, emits, tick>>

\* the server
server == <<status, rooms, sio, exceptRooms, sent, last>>

\* what the two host programs have in common, and what each has of its own
session == <<link, connected, viewerSocketId, frame>>
ffmpeg == <<ffmpegProcess, procs>>
shooter == <<capturing, loops>>
clients == <<session, ffmpeg, shooter>>

vars == <<status, rooms, sio, exceptRooms, sent, last, inq, outq, got, emits, tick,
          link, connected, viewerSocketId, frame, ffmpegProcess, procs, capturing, loops>>

\* ---- the Map `rooms` ---------------------------------------------------
\* The Map is a function from the keys it holds to their room objects.  The
\* insertion order of a Map is not kept: the only code that depends on it is
\* rooms.forEach in the disconnect handler, whose callback reads and writes
\* the visited entry alone, so the order decides nothing but the order of
\* the 'host-disconnected' emits of different rooms (see ForEachRoom).
Range(s) == {s[i] : i \in 1..Len(s)}

\* rooms.has(roomId)
RoomsHas(rs, r) == r \in DOMAIN rs

\* { host: null, viewers: [] }
NewRoom == [host |-> NULL, viewers |-> <<>>]

\* rooms.set(roomId, room)
RoomsSet(rs, r, room) == [k \in DOMAIN rs \cup {r} |-> IF k = r THEN room ELSE rs[k]]

\* if (!rooms.has(roomId)) rooms.set(roomId, { host: null, viewers: [] })
RoomsEnsure(rs, r) == IF RoomsHas(rs, r) THEN rs ELSE RoomsSet(rs, r, NewRoom)

\* rooms.delete(roomId) for every key in `ks`
RoomsDelete(rs, ks) == [k \in DOMAIN rs \ ks |-> rs[k]]

\* ---- socket.io --------------------------------------------------------
\* an emit: the event name, the sockets it is written to, the adapter room
\* it was addressed to (NULL for socket.emit), and its arguments
Emit(ev, rcpts, via, room, role, peer, data) ==
    [event |-> ev, rcpts |-> rcpts, via |-> via, room |-> room,
     role |-> role, peer |-> peer, data |-> data]

\* socket.join(roomId)
SocketJoin(s, c, r) == [s EXCEPT ![RoomName(r)] = @ \cup {c}]

\* the socket leaves every adapter room when it closes, before 'disconnect' fires
SocketLeaveAll(s, c) == [n \in Names |-> s[n] \ {c}]

\* io.to(name).emit(...): every socket in the adapter room `name`
IoTo(s, name) == IF name \in Names THEN s[name] ELSE {}

\* socket.to(name).emit(...): the adapter room `name` without the sender.
\* The sender is excluded by its id; socket.io 4 takes that id as the name of
\* an adapter room and excludes every socket in it, earlier versions exclude
\* the one socket.  The repository does not pin the version (no package.json
\* in the sources), so the model keeps both.
SocketTo(s, c, name) ==
    IoTo(s, name) \ ({c} \cup (IF exceptRooms THEN IoTo(s, ConnName(c)) ELSE {}))

\* ---- construction ------------------------------------------------------
\* an event: its name, the socket it arrived on, its fields (roomId, role, to,
\* from, and signal or data) and, for a disconnect, the keys its handler
\* deleted from the Map
Event(kind, c, r, role, to, gone, from, data) ==
    [kind |-> kind, conn |-> c, room |-> r, role |-> role, to |-> to, gone |-> gone,
     from |-> from, data |-> data]

NoEvent == Event("none", NULL, NULL, "-", NoName, {}, NULL, NULL)

Init ==
    /\ status = [c \in Conns |-> "new"]
    /\ rooms = [k \in {} |-> NewRoom]
    /\ sio = [n \in Names |-> {}]
    /\ exceptRooms \in BOOLEAN
    /\ sent = <<>>
    /\ last = NoEvent
    /\ inq = [c \in Conns |-> <<>>]
    /\ outq = [c \in Conns |-> <<>>]
    /\ got = [c \in Conns |-> <<>>]
    /\ emits = 0
    /\ tick = 0
    /\ link = "down"
    /\ connected = FALSE
    /\ viewerSocketId = NULL
    /\ frame = [src |-> NULL, to |-> NULL, n |-> 0]   \* NoFrame
    /\ ffmpegProcess = NULL
    /\ procs = [p \in 1..MaxProcs |-> "unborn"]
    /\ capturing = FALSE
    /\ loops = [l \in 1..MaxLoops |-> "unborn"]

\* io.on('connection', socket => ...): a fresh id, the socket is in its own room
Connection(c) ==
    /\ status[c] = "new"
    /\ status' = [status EXCEPT ![c] = "open"]
    /\ sio' = [sio EXCEPT ![ConnName(c)] = @ \cup {c}]
    /\ sent' = <<>>
    /\ last' = Event("connection", c, NULL, "-", NoName, {}, NULL, NULL)
    /\ UNCHANGED <<rooms, exceptRooms>>

\* ---- join-room ---------------------------------------------------------
\* a host join that respects a host already present (first writer wins)
SetHostIfVacant(room, c) == IF room.host = NULL THEN [room EXCEPT !.host = c] ELSE room

\* room.host = socket.id
SetHost(room, c) == [room EXCEPT !.host = c]

\* a push that also makes the first comer host of a room without one
PushViewerClaimsVacant(room, c) ==
    [room EXCEPT !.viewers = Append(@, c),
                 !.host = IF @ = NULL THEN c ELSE @]

\* room.viewers.push(socket.id)
PushViewer(room, c) == [room EXCEPT !.viewers = Append(@, c)]

\* socket.emit('joined', { role, roomId })
EmitJoined(c, r, role) == Emit("joined", {c}, NoName, r, role, NULL, NULL)

\* socket.to(roomId).emit('host-ready')
EmitHostReady(s, c, r) == 
    Emit("host-ready", SocketTo(s, c, RoomName(r)), RoomName(r), NULL, "-", NULL, NULL)

\* the emit without its test: io.to(room.host).emit('viewer-joined', ...)
EmitViewerJoinedUnguarded(s, room, c) ==
    <<Emit("viewer-joined", IoTo(s, ConnName(room.host)), ConnName(room.host),
           NULL, "-", c, NULL)>>

\* if (room.host) io.to(room.host).emit('viewer-joined', { viewerId: socket.id })
EmitViewerJoined(s, room, c) ==
    IF room.host # NULL
    THEN <<Emit("viewer-joined", IoTo(s, ConnName(room.host)), ConnName(room.host),
                NULL, "-", c, NULL)>>
    ELSE <<>>

\* socket.on('join-room', ({ roomId, role }) => ...)
JoinRoom(c, r, role) ==
    /\ status[c] = "open"
    /\ LET sio1 == SocketJoin(sio, c, r)
           rs1 == RoomsEnsure(rooms, r)
           room == rs1[r]
       IN  /\ (role # "host") => Len(room.viewers) < MaxViewers
           /\ sio' = sio1
           /\ IF role = "host"
              THEN /\ rooms' = RoomsSet(rs1, r, SetHost(room, c))
                   /\ sent' = <<EmitJoined(c, r, "host"), EmitHostReady(sio1, c, r)>>
              ELSE /\ rooms' = RoomsSet(rs1, r, PushViewer(room, c))
                   /\ sent' = <<EmitJoined(c, r, "viewer")>>
                                \o EmitViewerJoined(sio1, room, c)
    /\ last' = Event("join-room", c, r, role, NoName, {}, NULL, NULL)
    /\ UNCHANGED <<status, exceptRooms>>

\* ---- disconnect --------------------------------------------------------
\* the host cleared without the test: room.host = null
ClearHostAlways(room, c) == [room EXCEPT !.host = NULL]

\* if (room.host === socket.id) room.host = null
ClearHost(room, c) == IF room.host = c THEN [room EXCEPT !.host = NULL] ELSE room

\* the filter with its test inverted: filter(id => id === socket.id)
FilterViewersInverted(room, c) ==
    [room EXCEPT !.viewers = SelectSeq(@, LAMBDA id : id = c)]

\* room.viewers = room.viewers.filter(id => id !== socket.id)
FilterViewers(room, c) ==
    [room EXCEPT !.viewers = SelectSeq(@, LAMBDA id : id # c)]

\* the emptiness test without its negation: room.host && room.viewers.length === 0
RoomIsEmptyHosted(room) == room.host # NULL /\ Len(room.viewers) = 0

\* !room.host && room.viewers.length === 0
RoomIsEmpty(room) == room.host = NULL /\ Len(room.viewers) = 0

\* the broadcast made for every room without host: if (!room.host || room.host === socket.id)
EmitHostDisconnectedVacant(s, r, room, c) ==
    IF room.host = c \/ room.host = NULL
    THEN <<Emit("host-disconnected", SocketTo(s, c, RoomName(r)), RoomName(r),
                NULL, "-", NULL, NULL)>>
    ELSE <<>>

\* socket.to(roomId).emit('host-disconnected'), only in the branch room.host === socket.id
EmitHostDisconnected(s, r, room, c) ==
    IF room.host = c
    THEN <<Emit("host-disconnected", SocketTo(s, c, RoomName(r)), RoomName(r),
                NULL, "-", NULL, NULL)>>
    ELSE <<>>

\* the body of the forEach callback for one entry: the room object afterwards
VisitRoom(room, c) == FilterViewers(ClearHost(room, c), c)

\* the emits of rooms.forEach((room, roomId) => ...) over the keys `ks`
RECURSIVE ForEachEmits(_, _, _, _)
ForEachEmits(rs, ks, s, c) ==
    IF ks = {}
    THEN <<>>
    ELSE LET r == CHOOSE k \in ks : \A j \in ks : k <= j
         IN  EmitHostDisconnected(s, r, rs[r], c) \o ForEachEmits(rs, ks \ {r}, s, c)

\* rooms.forEach((room, roomId) => ...): every entry is visited once, an
\* entry that is empty after its visit is deleted
ForEachRoom(rs, s, c) ==
    LET visited == [k \in DOMAIN rs |-> VisitRoom(rs[k], c)]
    IN  [rooms |-> RoomsDelete(visited, {k \in DOMAIN rs : RoomIsEmpty(visited[k])}),
         sent |-> ForEachEmits(rs, DOMAIN rs, s, c)]

\* socket.on('disconnect', () => ...): socket.io has already removed the
\* socket from every adapter room when the handler runs
Disconnect(c) ==
    /\ status[c] = "open"
    /\ status' = [status EXCEPT ![c] = "closed"]
    /\ LET sio1 == SocketLeaveAll(sio, c)
           res == ForEachRoom(rooms, sio1, c)
       IN  /\ sio' = sio1
           /\ rooms' = res.rooms
           /\ sent' = res.sent
           /\ last' = Event("disconnect", c, NULL, "-", NoName,
                            DOMAIN rooms \ DOMAIN res.rooms, NULL, NULL)
    /\ UNCHANGED exceptRooms

\* the disconnect listener called once more for a socket whose disconnect has
\* been processed: the same callback, on the Map as it is then
DisconnectAgain(c) ==
    /\ status[c] = "closed"
    /\ LET res == ForEachRoom(rooms, sio, c)
       IN  /\ rooms' = res.rooms
           /\ sent' = res.sent
           /\ last' = Event("disconnect-again", c, NULL, "-", NoName,
                            DOMAIN rooms \ DOMAIN res.rooms, NULL, NULL)
    /\ UNCHANGED <<status, sio, exceptRooms>>

\* ---- signal and frame --------------------------------------------------
\* the values a client can put into a `to` field: any adapter room name, or none
Targets == Names \cup {NoName}

\* the object passed on as the client sent it, no `from` put in by the server:
\* io.to(to).emit('signal', { signal })
EmitSignalUnstamped(s, c, to, signal) ==
    Emit("signal", IoTo(s, to), to, NULL, "-", NULL, signal)

\* io.to(to).emit('signal', { from: socket.id, signal })
EmitSignal(s, c, to, signal) == Emit("signal", IoTo(s, to), to, NULL, "-", c, signal)

\* socket.on('signal', ({ roomId, to, signal }) => ...)
Signal(c, r, to, signal) ==
    /\ status[c] = "open"
    /\ sent' = <<EmitSignal(sio, c, to, signal)>>
    /\ last' = Event("signal", c, r, "-", to, {}, NULL, signal)
    /\ UNCHANGED <<status, rooms, sio, exceptRooms>>

\* if (data.to) io.to(data.to).emit('frame', data): the object the client sent
\* is passed on as it is, `from` being whatever field of that name it carries
EmitFrame(s, to, from, data) ==
    IF to # NoName
    THEN <<Emit("frame", IoTo(s, to), to, NULL, "-", from, data)>>
    ELSE <<>>

\* socket.on('frame', (data) => ...)
Frame(c, to, from, data) ==
    /\ status[c] = "open"
    /\ sent' = EmitFrame(sio, to, from, data)
    /\ last' = Event("frame", c, NULL, "-", to, {}, from, data)
    /\ UNCHANGED <<status, rooms, sio, exceptRooms>>

\* ---- events the handlers are not written for -----------------------------
\* the events whose handler reads a field of its argument
Handled == {"join-room", "signal", "frame"}

\* join-room, signal or frame sent with no argument: the destructuring of
\* undefined (join-room, signal) and the read of data.to (frame) throw a
\* TypeError inside the listener; nothing catches it, no uncaughtException
\* handler is installed, so the process ends: every socket goes with it and
\* the Map and the adapter are gone
Malformed(c, kind) ==
    /\ status[c] = "open"
    /\ status' = [d \in Conns |-> "down"]
    /\ rooms' = [k \in {} |-> NewRoom]
    /\ sio' = [n \in Names |-> {}]
    /\ sent' = <<>>
    /\ last' = Event(kind, c, NULL, "-", NoName, {}, NULL, NULL)
    /\ UNCHANGED exceptRooms

\* an event no listener is registered for: socket.io calls no handler
Unrecognized(c) ==
    /\ status[c] = "open"
    /\ sent' = <<>>
    /\ last' = Event("unrecognized", c, NULL, "-", NoName, {}, NULL, NULL)
    /\ UNCHANGED <<status, rooms, sio, exceptRooms>>

\* the registry events: connection, join-room, disconnect; the handlers are
\* run on the events themselves, the channels stay empty
Next ==
    \/ \E c \in Conns : Connection(c) /\ UNCHANGED <<wire, clients>>
    \/ \E c \in Conns, r \in RoomIds, role \in Roles : JoinRoom(c, r, role) /\ UNCHANGED <<wire, clients>>
    \/ \E c \in Conns : Disconnect(c) /\ UNCHANGED <<wire, clients>>

Spec == Init /\ [][Next]_vars

\* the registry events, with a disconnect that may be reported twice
NextTwice ==
    \/ \E c \in Conns : Connection(c) /\ UNCHANGED <<wire, clients>>
    \/ \E c \in Conns, r \in RoomIds, role \in Roles : JoinRoom(c, r, role) /\ UNCHANGED <<wire, clients>>
    \/ \E c \in Conns : Disconnect(c) /\ UNCHANGED <<wire, clients>>
    \/ \E c \in Conns : DisconnectAgain(c) /\ UNCHANGED <<wire, clients>>

SpecTwice == Init /\ [][NextTwice]_vars

\* all events of a connection, signal and frame included
NextRelay ==
    \/ \E c \in Conns : Connection(c) /\ UNCHANGED <<wire, clients>>
    \/ \E c \in Conns, r \in RoomIds, role \in Roles : JoinRoom(c, r, role) /\ UNCHANGED <<wire, clients>>
    \/ \E c \in Conns, r \in RoomIds, to \in Targets, p \in Payloads : Signal(c, r, to, p) /\ UNCHANGED <<wire, clients>>
    \/ \E c \in Conns, to \in Targets, from \in Conns \cup {NULL}, p \in Payloads :
            Frame(c, to, from, p) /\ UNCHANGED <<wire, clients>>
    \/ \E c \in Conns, kind \in Handled : Malformed(c, kind) /\ UNCHANGED <<wire, clients>>
    \/ \E c \in Conns : Unrecognized(c) /\ UNCHANGED <<wire, clients>>
    \/ \E c \in Conns : Disconnect(c) /\ UNCHANGED <<wire, clients>>

SpecRelay == Init /\ [][NextRelay]_vars

\* ---- the connection between clients and server --------------------------
\* A socket.io connection carries the events of a client to the server, and
\* the messages written to the socket back to the client, each in the order
\* they were handed to it.  A client emits without waiting for the server.

\* an event on its way to the server, with the number of the emission
Packet(kind, r, role, to, n) == [kind |-> kind, room |-> r, role |-> role, to |-> to, n |-> n]

\* socket.emit(event, payload) in a client
ClientEmit(c, kind, r, role, to) ==
    /\ status[c] = "open"
    /\ emits < MaxEmits
    /\ emits' = emits + 1
    /\ inq' = [inq EXCEPT ![c] = Append(@, Packet(kind, r, role, to, emits + 1))]
    /\ UNCHANGED <<status, rooms, sio, exceptRooms, sent, last, outq, got, tick>>

\* the newest event of a channel
PendingNewest(q) == Len(q)

\* the place in its channel of the event a listener is called for: the oldest
Pending(q) == 1

NextPacket(c) == inq[c][Pending(inq[c])]

\* the channel without its i-th element
Remove(q, i) == SubSeq(q, 1, i - 1) \o SubSeq(q, i + 1, Len(q))

\* messages put in front of the ones waiting
EnqueueFront(q, msgs) == msgs \o q

\* emit writes to a socket behind what has been written to it before
Enqueue(q, msgs) == q \o msgs

\* the emits of `out` that are written to socket x, each with the handler run
\* that issued it: the socket whose event it was, the roomId and the number
\* of that event, and the number of the run
Written(out, x, c, r, n, t) ==
    LET mine == SelectSeq(out, LAMBDA e : x \in e.rcpts)
    IN  [i \in 1..Len(mine) |-> [msg |-> mine[i], by |-> c, room |-> r, n |-> n, at |-> t]]

\* what a handler run for the pending event of c does to the channels: the
\* event is consumed, and each emit is written to its sockets
Served(c) ==
    /\ inq' = [inq EXCEPT ![c] = Remove(@, Pending(@))]
    /\ tick' = tick + 1
    /\ outq' = [x \in Conns |->
                   Enqueue(outq[x], Written(sent', x, c, NextPacket(c).room,
                                            NextPacket(c).n, tick + 1))]
    /\ UNCHANGED <<got, emits>>

\* the join-room listener called for the pending event of c
HandleJoinRoom(c) ==
    /\ inq[c] # <<>>
    /\ NextPacket(c).kind = "join-room"
    /\ JoinRoom(c, NextPacket(c).room, NextPacket(c).role)
    /\ Served(c)

\* the signal listener called for the pending event of c; the payload is the
\* number of the emission, which tells two messages apart
HandleSignal(c) ==
    /\ inq[c] # <<>>
    /\ NextPacket(c).kind = "signal"
    /\ Signal(c, NextPacket(c).room, NextPacket(c).to, NextPacket(c).n)
    /\ Served(c)

\* the frame listener called for the pending event of c
HandleFrame(c) ==
    /\ inq[c] # <<>>
    /\ NextPacket(c).kind = "frame"
    /\ Frame(c, NextPacket(c).to, NULL, NextPacket(c).n)
    /\ Served(c)

\* the connection of c closes: the disconnect listener runs, what was on the
\* way to and from c is lost
Close(c) ==
    /\ Disconnect(c)
    /\ inq' = [inq EXCEPT ![c] = <<>>]
    /\ tick' = tick + 1
    /\ outq' = [x \in Conns |->
                   IF x = c THEN <<>>
                   ELSE Enqueue(outq[x], Written(sent', x, c, NULL, 0, tick + 1))]
    /\ UNCHANGED <<got, emits>>

\* the client of x receives the oldest message written to its socket
Receive(x) ==
    /\ status[x] = "open"
    /\ outq[x] # <<>>
    /\ got' = [got EXCEPT ![x] = Append(@, Head(outq[x]))]
    /\ outq' = [outq EXCEPT ![x] = Tail(@)]
    /\ UNCHANGED <<status, rooms, sio, exceptRooms, sent, last, inq, emits, tick>>

\* clients, channels and server together
NextWire ==
    \/ \E c \in Conns : Connection(c) /\ UNCHANGED <<wire, clients>>
    \/ \E c \in Conns, r \in RoomIds, role \in {"host", "viewer"} :
            ClientEmit(c, "join-room", r, role, NoName) /\ UNCHANGED clients
    \/ \E c \in Conns, to \in Names : ClientEmit(c, "signal", NULL, "-", to) /\ UNCHANGED clients
    \/ \E c \in Conns, to \in Names : ClientEmit(c, "frame", NULL, "-", to) /\ UNCHANGED clients
    \/ \E c \in Conns : HandleJoinRoom(c) /\ UNCHANGED clients
    \/ \E c \in Conns : HandleSignal(c) /\ UNCHANGED clients
    \/ \E c \in Conns : HandleFrame(c) /\ UNCHANGED clients
    \/ \E c \in Conns : Receive(c) /\ UNCHANGED clients
    \/ \E c \in Conns : Close(c) /\ UNCHANGED clients

SpecWire == Init /\ [][NextWire]_vars

\* ---- the host programs: what they share --------------------------------
\* host-ffmpeg.js and host-simple.js hold one socket.io client that connects
\* again by itself (reconnection: true).  A host program is a process of its
\* own; in its specifications the server and the channels stand still, and
\* the events of its socket arrive in any order the socket allows:
\* viewer-joined while it is connected, disconnect, and connect again.

\* no frame emitted yet
NoFrame == [src |-> NULL, to |-> NULL, n |-> 0]

\* socket.emit('frame', { to: viewerSocketId, data: base64 }) by source src
EmitFrameEvent(src, to) == [src |-> src, to |-> to, n |-> frame.n + 1]

\* socket.on('connect'): join-room is emitted, no variable of the host changes
HostConnect ==
    /\ link = "down"
    /\ link' = "up"
    /\ UNCHANGED <<server, wire, connected, viewerSocketId, frame, ffmpeg, shooter>>

\* ---- host-ffmpeg.js ----------------------------------------------------
\* A child is "unborn", then "running"; "killed" once kill('SIGTERM') was
\* called on it and it has not exited yet; "dead" once it has exited and its
\* 'close' event is still to be delivered; "closed" after the close listener.
Procs == 1..MaxProcs

\* the children that exist as processes
AliveProcs == {p \in Procs : procs[p] \in {"running", "killed"}}

\* function startFFmpegCapture(): the pair (ffmpegProcess, procs) afterwards
StartFFmpegCapture(fp, ps) ==
    IF fp # NULL
    THEN [ffmpegProcess |-> fp, procs |-> ps]
    ELSE LET p == CHOOSE q \in Procs : ps[q] = "unborn" /\ \A o \in Procs : ps[o] = "unborn" => q <= o
         IN  [ffmpegProcess |-> p, procs |-> [ps EXCEPT ![p] = "running"]]

\* function stopFFmpegCapture(): kill has no effect on a child that has exited
StopFFmpegCapture(fp, ps) ==
    IF fp # NULL
    THEN [ffmpegProcess |-> NULL,
          procs |-> [ps EXCEPT ![fp] = IF @ = "running" THEN "killed" ELSE @]]
    ELSE [ffmpegProcess |-> fp, procs |-> ps]

\* socket.on('viewer-joined', ({ viewerId }) => ...) of host-ffmpeg.js
FfmpegViewerJoined(v) ==
    /\ link = "up"
    /\ (ffmpegProcess = NULL) => \E q \in Procs : procs[q] = "unborn"
    /\ viewerSocketId' = v
    /\ connected' = TRUE
    /\ LET res == StartFFmpegCapture(ffmpegProcess, procs)
       IN  ffmpegProcess' = res.ffmpegProcess /\ procs' = res.procs
    /\ UNCHANGED <<server, wire, link, frame, shooter>>

\* socket.on('disconnect', () => ...) of host-ffmpeg.js
FfmpegDisconnect ==
    /\ link = "up"
    /\ link' = "down"
    /\ connected' = FALSE
    /\ LET res == StopFFmpegCapture(ffmpegProcess, procs)
       IN  ffmpegProcess' = res.ffmpegProcess /\ procs' = res.procs
    /\ UNCHANGED <<server, wire, viewerSocketId, frame, shooter>>

\* a child exits: after the signal, or by itself
ProcExit(p) ==
    /\ procs[p] \in {"running", "killed"}
    /\ procs' = [procs EXCEPT ![p] = "dead"]
    /\ UNCHANGED <<server, wire, session, ffmpegProcess, shooter>>

\* ffmpegProcess.on('close', ...) of child p: ffmpegProcess = null
ProcClose(p) ==
    /\ link # "exited"
    /\ procs[p] = "dead"
    /\ procs' = [procs EXCEPT ![p] = "closed"]
    /\ ffmpegProcess' = NULL
    /\ UNCHANGED <<server, wire, session, shooter>>

\* ffmpegProcess.stdout.on('data', ...) of child p with a complete JPEG: the
\* listener stays on the child after stopFFmpegCapture
StdoutData(p) ==
    /\ link # "exited"
    /\ procs[p] \in {"running", "killed", "dead"}
    /\ frame.n < MaxFrames
    /\ frame' = IF connected /\ viewerSocketId # NULL
                THEN EmitFrameEvent(p, viewerSocketId)
                ELSE frame
    /\ UNCHANGED <<server, wire, link, connected, viewerSocketId, ffmpeg, shooter>>

\* process.on('SIGINT') of host-ffmpeg.js: stopFFmpegCapture, process.exit
FfmpegSigint ==
    /\ link # "exited"
    /\ link' = "exited"
    /\ LET res == StopFFmpegCapture(ffmpegProcess, procs)
       IN  ffmpegProcess' = res.ffmpegProcess /\ procs' = res.procs
    /\ UNCHANGED <<server, wire, connected, viewerSocketId, frame, shooter>>

NextFfmpeg ==
    \/ HostConnect
    \/ \E v \in Conns : FfmpegViewerJoined(v)
    \/ FfmpegDisconnect
    \/ \E p \in Procs : ProcExit(p)
    \/ \E p \in Procs : ProcClose(p)
    \/ \E p \in Procs : StdoutData(p)
    \/ FfmpegSigint

SpecFfmpeg == Init /\ [][NextFfmpeg]_vars

\* ---- host-simple.js -----------------------------------------------------
\* Every startCapture that passes its test makes a captureLoop closure of its
\* own.  A loop is "unborn", then waits in "timer" (setTimeout), in "shot"
\* (await screenshot) or in "immediate" (setImmediate), and is "stopped" once
\* a call of it has returned at the test of capturing and connected.
Loops == 1..MaxLoops

\* async function startCapture(): the pair (capturing, loops) afterwards.  The
\* first call of captureLoop is made at once: its test passes, no time has
\* gone by since lastFrameTime was set, so it arms the timer
StartCapture(cap, ls) ==
    IF cap
    THEN [capturing |-> cap, loops |-> ls]
    ELSE LET l == CHOOSE q \in Loops : ls[q] = "unborn" /\ \A o \in Loops : ls[o] = "unborn" => q <= o
         IN  [capturing |-> TRUE, loops |-> [ls EXCEPT ![l] = "timer"]]

\* socket.on('viewer-joined', ({ viewerId }) => ...) of host-simple.js
SimpleViewerJoined(v) ==
    /\ link = "up"
    /\ ~capturing => \E q \in Loops : loops[q] = "unborn"
    /\ viewerSocketId' = v
    /\ connected' = TRUE
    /\ LET res == StartCapture(capturing, loops)
       IN  capturing' = res.capturing /\ loops' = res.loops
    /\ UNCHANGED <<server, wire, link, frame, ffmpeg>>

\* socket.on('disconnect', () => ...) of host-simple.js
SimpleDisconnect ==
    /\ link = "up"
    /\ link' = "down"
    /\ connected' = FALSE
    /\ capturing' = FALSE
    /\ UNCHANGED <<server, wire, viewerSocketId, frame, ffmpeg, loops>>

\* captureLoop() called by the timer or by setImmediate: it returns if
\* capturing or connected is false, arms the timer when the frame interval
\* has not gone by (late = FALSE), and otherwise asks for a screenshot
CaptureLoop(l, late) ==
    /\ link # "exited"
    /\ loops[l] \in {"timer", "immediate"}
    /\ loops' = [loops EXCEPT ![l] =
                    IF ~capturing \/ ~connected THEN "stopped"
                    ELSE IF late THEN "shot" ELSE "timer"]
    /\ UNCHANGED <<server, wire, session, ffmpeg, capturing>>

\* the screenshot of loop l settles: resolved (ok), the frame is emitted if
\* viewerSocketId is set; rejected, the error is logged; then setImmediate
ScreenshotSettled(l, ok) ==
    /\ link # "exited"
    /\ loops[l] = "shot"
    /\ (ok /\ viewerSocketId # NULL) => frame.n < MaxFrames
    /\ frame' = IF ok /\ viewerSocketId # NULL
                THEN EmitFrameEvent(l, viewerSocketId)
                ELSE frame
    /\ loops' = [loops EXCEPT ![l] = "immediate"]
    /\ UNCHANGED <<server, wire, link, connected, viewerSocketId, ffmpeg, capturing>>

\* process.on('SIGINT') of host-simple.js: process.exit
SimpleSigint ==
    /\ link # "exited"
    /\ link' = "exited"
    /\ UNCHANGED <<server, wire, connected, viewerSocketId, frame, ffmpeg, shooter>>

NextSimple ==
    \/ HostConnect
    \/ \E v \in Conns : SimpleViewerJoined(v)
    \/ SimpleDisconnect
    \/ \E l \in Loops, late \in BOOLEAN : CaptureLoop(l, late)
    \/ \E l \in Loops, ok \in BOOLEAN : ScreenshotSettled(l, ok)
    \/ SimpleSigint

SpecSimple == Init /\ [][NextSimple]_vars

\* ---- notions the properties are stated in ------------------------------
\* room.host of the room stored under r, null when the Map has no such key
HostOf(rs, r) == IF RoomsHas(rs, r) THEN rs[r].host ELSE NULL

\* room.viewers of the room stored under r
ViewersOf(rs, r) == IF RoomsHas(rs, r) THEN rs[r].viewers ELSE <<>>

\* the connections the registry holds for room r
Members(rs, r) == ({HostOf(rs, r)} \ {NULL}) \cup Range(ViewersOf(rs, r))

\* the number of occurrences of x in the array
Count(seq, x) == Cardinality({i \in 1..Len(seq) : seq[i] = x})

\* the emits of `out` that carry event ev
Emits(out, ev) == {i \in 1..Len(out) : out[i].event = ev}

\* the emits of `out` that carry event ev and are written to connection x
Got(out, ev, x) == {i \in Emits(out, ev) : x \in out[i].rcpts}

\* d is connected and in the adapter room of r by a join-room of its own, but
\* the registry holds it neither as host nor as viewer of r: d joined r as
\* host and another host join has replaced it since
Displaced(rs, s, d, r) ==
    /\ status[d] = "open"
    /\ ConnName(d) # RoomName(r)
    /\ d \in s[RoomName(r)]
    /\ d \notin Members(rs, r)

\* ---- C1 ----------------------------------------------------------------
\* C1: every room of the registry has at most one host (one value, a
\* connection id or null), and right after a join-room with role host by
\* connection c for room r the host of r is c, whatever it was before.
C1_LastWriterWins ==
    /\ \A r \in DOMAIN rooms : rooms[r].host \in Conns \cup {NULL}
    /\ (last.kind = "join-room" /\ last.role = "host")
          => HostOf(rooms, last.room) = last.conn

\* a host join has just replaced another host: the replaced one is still connected
C1_Witness ==
    /\ last.kind = "join-room" /\ last.role = "host"
    /\ HostOf(rooms, last.room) = last.conn
    /\ \E d \in Conns \ {last.conn} : Displaced(rooms, sio, d, last.room)

\* ---- C2 ----------------------------------------------------------------
\* C2: every connection id the registry stores, as host or among the viewers
\* of any room, belongs to a connection that is still connected; so after the
\* disconnect of c no room holds c any more.
C2_NoStaleRouting ==
    \A r \in DOMAIN rooms :
        /\ rooms[r].host # NULL => status[rooms[r].host] = "open"
        /\ \A v \in Range(rooms[r].viewers) : status[v] = "open"

\* a connection that was host of a room has disconnected and the room lives on
C2_Witness ==
    /\ last.kind = "disconnect"
    /\ status[last.conn] = "closed"
    /\ \E r \in DOMAIN rooms :
          /\ \E i \in Emits(sent, "host-disconnected") : sent[i].via = RoomName(r)
          /\ last.conn \notin Members(rooms, r)
          /\ Members(rooms, r) # {}

\* ---- C3 ----------------------------------------------------------------
\* C3: between two events the registry holds no room without host and
\* without viewers: a disconnect deletes the rooms it empties, a join leaves
\* no empty room behind.
C3_NoEmptyRoom ==
    \A r \in DOMAIN rooms : rooms[r].host # NULL \/ Len(rooms[r].viewers) > 0

\* a connection that was host of no room has disconnected and its handler
\* deleted a room: the room of a departing last viewer
C3_Witness ==
    /\ last.kind = "disconnect"
    /\ sent = <<>>
    /\ \E r \in last.gone : ~RoomsHas(rooms, r)

\* ---- C4 ----------------------------------------------------------------
\* C4: in no room is a connection id at the same time the host and one of the
\* viewers, also after several join-room events of one connection for the
\* same room with different roles.
C4_HostXorViewer ==
    \A r \in DOMAIN rooms : rooms[r].host \notin Range(rooms[r].viewers)

\* ---- C5 ----------------------------------------------------------------
\* C5: when a connection that is already a viewer of room r joins r as viewer
\* again, the viewers of r are unchanged and hold its id exactly once.
C5_ViewerJoinIdempotent ==
    [][(/\ last'.kind = "join-room"
        /\ last'.role = "viewer"
        /\ last'.conn \in Range(ViewersOf(rooms, last'.room)))
       => (/\ ViewersOf(rooms', last'.room) = ViewersOf(rooms, last'.room)
           /\ Count(ViewersOf(rooms', last'.room), last'.conn) = 1)]_vars

\* ---- C6 ----------------------------------------------------------------
\* C6: when connection c disconnects, then for exactly the rooms whose host c
\* was the host becomes null and every viewer that remains in the room is
\* written 'host-disconnected' exactly once; such a room, when viewers other
\* than c are in it, stays in the registry with its viewers unchanged; no
\* 'host-disconnected' is emitted for a room whose host c was not.
C6_HostDeparture ==
    [][last'.kind = "disconnect" =>
        \A r \in RoomIds :
            LET c == last'.conn
                hd == {i \in Emits(sent', "host-disconnected") : sent'[i].via = RoomName(r)}
            IN  IF HostOf(rooms, r) = c
                THEN /\ HostOf(rooms', r) = NULL
                     /\ \A v \in Range(ViewersOf(rooms', r)) :
                            Cardinality({i \in hd : v \in sent'[i].rcpts}) = 1
                     /\ (Range(ViewersOf(rooms, r)) \ {c} # {})
                            => /\ RoomsHas(rooms', r)
                               /\ ViewersOf(rooms', r) = ViewersOf(rooms, r)
                ELSE hd = {}]_vars

\* ---- C7 ----------------------------------------------------------------
\* C7: when connection v joins room r as viewer, v is written
\* 'joined' {viewer, r}; if r has a host h at that moment, h and only h is
\* written 'viewer-joined' with viewerId v; if r has no host, 'viewer-joined'
\* is written to no connection.
C7_ViewerJoinNotifiesHostOnly ==
    [][(last'.kind = "join-room" /\ last'.role = "viewer") =>
        LET v == last'.conn
            r == last'.room
            h == HostOf(rooms, r)
        IN  /\ \E i \in Got(sent', "joined", v) :
                   sent'[i].role = "viewer" /\ sent'[i].room = r
            /\ \A i \in Emits(sent', "viewer-joined") : sent'[i].peer = v
            /\ IF h # NULL
               THEN \A x \in Conns : (Got(sent', "viewer-joined", x) # {}) <=> (x = h)
               ELSE \A x \in Conns : Got(sent', "viewer-joined", x) = {}]_vars

\* ---- C8 ----------------------------------------------------------------
\* C8: when connection h joins room r as host, h is written 'joined' {host, r}
\* and is not written the 'host-ready' of its own join; every viewer that is
\* in r at that moment is written 'host-ready'; when r has no other member,
\* nothing but the 'joined' acknowledgement is written to anyone.
C8_HostJoinNotifiesViewers ==
    [][(last'.kind = "join-room" /\ last'.role = "host") =>
        LET h == last'.conn
            r == last'.room
        IN  /\ \E i \in Got(sent', "joined", h) :
                   sent'[i].role = "host" /\ sent'[i].room = r
            /\ Got(sent', "host-ready", h) = {}
            /\ \A v \in Range(ViewersOf(rooms, r)) : Got(sent', "host-ready", v) # {}
            /\ (Members(rooms, r) \ {h} = {})
                  => \A i \in 1..Len(sent') :
                        IF sent'[i].event = "joined"
                        THEN sent'[i].rcpts = {h}
                        ELSE sent'[i].rcpts = {}]_vars

\* ---- C9 ----------------------------------------------------------------
\* C9: a host d that a host join of another connection replaces is written
\* nothing by that join, and, once replaced and no member of the room, it is
\* written none of the room's later broadcasts ('host-ready' of further host
\* joins, 'host-disconnected' when the new host leaves).
C9_DisplacedHostHearsNothing ==
    [][\A d \in Conns, r \in RoomIds :
        /\ (/\ last'.kind = "join-room" /\ last'.role = "host"
            /\ last'.room = r /\ last'.conn # d
            /\ HostOf(rooms, r) = d
            /\ d \notin Range(ViewersOf(rooms, r)))
              => \A i \in 1..Len(sent') : d \notin sent'[i].rcpts
        /\ (Displaced(rooms, sio, d, r) /\ d \notin Members(rooms', r))
              => \A i \in Emits(sent', "host-ready") \cup Emits(sent', "host-disconnected") :
                    sent'[i].via = RoomName(r) => d \notin sent'[i].rcpts]_vars

\* ---- C10 ---------------------------------------------------------------
\* C10: a broadcast for room r ('host-ready', 'host-disconnected') is written
\* only to connections that are host or viewer of r when it is issued; a
\* connection that never joined r is never written it.
C10_NoCrosstalk ==
    [][\A r \in RoomIds :
        \A i \in Emits(sent', "host-ready") \cup Emits(sent', "host-disconnected") :
            sent'[i].via = RoomName(r)
              => sent'[i].rcpts \subseteq Members(rooms, r) \cup Members(rooms', r)]_vars

\* ---- C11 ---------------------------------------------------------------
\* the connection the last event named as its target, if it is connected
TargetConn == {t \in Conns : last.to = ConnName(t) /\ status[t] = "open"}

\* the event came without argument: none of its fields has a value
NoPayload(e) == e.kind \in Handled /\ e.room = NULL /\ e.to = NoName /\ e.data = NULL

\* C11: a signal event of connection s with target t makes the server emit
\* exactly one signal message; it is written to t when t is connected, its
\* `from` is the id of the socket the event arrived on and its payload is
\* the payload s sent.
C11_SignalFromSender ==
    (last.kind = "signal" /\ ~NoPayload(last)) =>
        /\ Len(sent) = 1
        /\ sent[1].event = "signal"
        /\ sent[1].peer = last.conn
        /\ sent[1].data = last.data
        /\ TargetConn \subseteq sent[1].rcpts

\* a signal from one connection has reached another, connected one
C11_Witness ==
    /\ last.kind = "signal"
    /\ TargetConn # {}
    /\ last.conn \notin TargetConn
    /\ Got(sent, "signal", CHOOSE t \in TargetConn : TRUE) # {}
    /\ last.data \in Payloads

\* ---- C12 ---------------------------------------------------------------
\* C12: a signal event whose sender the registry does not hold as host or
\* viewer of the room named by its roomId is written to no connection.
C12_SignalFromMembersOnly ==
    (last.kind = "signal" /\ ~NoPayload(last) /\ last.conn \notin Members(rooms, last.room)) =>
        \A i \in 1..Len(sent) : sent[i].rcpts = {}

\* ---- C13 ---------------------------------------------------------------
\* C13: a frame event of connection s with a target t makes the server emit
\* one frame message, written to t when t is connected, with the payload s
\* sent and `from` equal to the id of s; a frame event without target is
\* written to no connection.
C13_FrameFromSender ==
    (last.kind = "frame" /\ ~NoPayload(last)) =>
        IF last.to = NoName
        THEN \A i \in 1..Len(sent) : sent[i].rcpts = {}
        ELSE /\ Len(sent) = 1
             /\ sent[1].event = "frame"
             /\ sent[1].data = last.data
             /\ sent[1].peer = last.conn
             /\ TargetConn \subseteq sent[1].rcpts

\* ---- C14 ---------------------------------------------------------------
\* C14: a signal or frame event whose target is not the id of a connected
\* socket is written to no connection, leaves the registry as it is and
\* leaves every connection open.
C14_RoutingMissIsNoOp ==
    [][(last'.kind \in {"signal", "frame"} /\ ~NoPayload(last') /\ TargetConn' = {}) =>
          /\ \A i \in 1..Len(sent') : sent'[i].rcpts = {}
          /\ rooms' = rooms
          /\ status' = status]_vars

\* ---- C15 ---------------------------------------------------------------
\* C15: a join-room, signal or frame event without payload object, or an
\* event of a kind the server has no handler for, leaves the registry as it
\* is, is answered by no message, and leaves open the connection it came
\* from and every other connection.
C15_MalformedIsDropped ==
    [][(NoPayload(last') \/ last'.kind = "unrecognized") =>
          /\ rooms' = rooms
          /\ sent' = <<>>
          /\ status' = status]_vars

\* ---- C16 ---------------------------------------------------------------
\* two received messages are signals or frames that one connection sent to
\* one target
SameFlow(a, b) ==
    /\ a.msg.event \in {"signal", "frame"}
    /\ b.msg.event \in {"signal", "frame"}
    /\ a.by = b.by
    /\ a.msg.via = b.msg.via

\* C16: of two signal or frame messages that a connection s sent to the same
\* target and that a client t has both received, t received first the one s
\* emitted first, whatever the other connections did in between.
C16_OrderPerPair ==
    \A t \in Conns : \A i, j \in 1..Len(got[t]) :
        (i < j /\ SameFlow(got[t][i], got[t][j])) => got[t][i].n < got[t][j].n

\* t has received two messages that another connection sent to it, and the
\* server handled an event of someone else between the two
C16_Witness ==
    \E t \in Conns : \E i, j \in 1..Len(got[t]) :
        /\ i < j
        /\ SameFlow(got[t][i], got[t][j])
        /\ got[t][i].by # t
        /\ got[t][i].msg.via = ConnName(t)
        /\ got[t][j].at > got[t][i].at + 1

\* ---- C17 ---------------------------------------------------------------
\* the host-disconnected messages of `out` for room r that are written to x
HostDisconnectedFor(out, r, x) ==
    {i \in Got(out, "host-disconnected", x) : out[i].via = RoomName(r)}

\* C17: when the disconnect of a connection is processed a second time, the
\* Map is left as it is and nothing is emitted; and one processing of a
\* disconnect writes at most one host-disconnected per room to a connection.
C17_DisconnectIdempotent ==
    [][/\ (last'.kind = "disconnect-again") => (rooms' = rooms /\ sent' = <<>>)
       /\ (last'.kind \in {"disconnect", "disconnect-again"}) =>
              \A r \in RoomIds, x \in Conns :
                  Cardinality(HostDisconnectedFor(sent', r, x)) <= 1]_vars

\* the disconnect of a host that left viewers behind has been processed twice
C17_Witness ==
    /\ last.kind = "disconnect-again"
    /\ \E r \in DOMAIN rooms : rooms[r].host = NULL /\ Len(rooms[r].viewers) > 0

\* ---- C18 ---------------------------------------------------------------
\* the notifications about a room
RoomEvents == {"host-ready", "viewer-joined", "host-disconnected"}

\* the room a received notification is about: the roomId of the join-room
\* that caused it, or the room host-disconnected was broadcast to
RoomOfMsg(m) ==
    IF m.room # NULL THEN m.room ELSE CHOOSE r \in RoomIds : RoomName(r) = m.msg.via

\* C18: of two notifications about one room that a client has received, it
\* received first the one whose handler run, and so whose change of the Map,
\* came first.
C18_RoomEventsInOrder ==
    \A x \in Conns : \A i, j \in 1..Len(got[x]) :
        (/\ i < j
         /\ got[x][i].msg.event \in RoomEvents
         /\ got[x][j].msg.event \in RoomEvents
         /\ RoomOfMsg(got[x][i]) = RoomOfMsg(got[x][j])) =>
            got[x][i].at < got[x][j].at

\* a client has received two notifications about one room, caused by events
\* of two connections
C18_Witness ==
    \E x \in Conns : \E i, j \in 1..Len(got[x]) :
        /\ i < j
        /\ got[x][i].msg.event \in RoomEvents
        /\ got[x][j].msg.event \in RoomEvents
        /\ RoomOfMsg(got[x][i]) = RoomOfMsg(got[x][j])
        /\ got[x][i].by # got[x][j].by

\* ---- C19 ---------------------------------------------------------------
\* c has sent a join-room that the server processed: the registry holds it in
\* a room, or it joined a room as host and has been replaced there
HasJoined(c) ==
    \E r \in RoomIds : c \in Members(rooms, r) \/ Displaced(rooms, sio, c, r)

\* C19: a join-room with role host or viewer from a connection that has
\* joined before is processed like a first one: the connection stays open,
\* host is set to it or it is pushed to viewers, it is written the joined
\* acknowledgement with the role and room of the event, nothing but joined,
\* host-ready and viewer-joined is emitted, a host join emits host-ready to
\* the room, written to every other member, and a viewer join emits
\* viewer-joined with the id of the joiner, written to the host of the room.
C19_RejoinReruns ==
    [][(last'.kind = "join-room" /\ last'.role \in {"host", "viewer"} /\ HasJoined(last'.conn)) =>
          LET c == last'.conn
              r == last'.room
          IN  /\ status' = status
              /\ \A i \in 1..Len(sent') :
                     sent'[i].event \in {"joined", "host-ready", "viewer-joined"}
              /\ \E i \in Got(sent', "joined", c) :
                     sent'[i].role = last'.role /\ sent'[i].room = r
              /\ (last'.role = "host") =>
                     /\ HostOf(rooms', r) = c
                     /\ ViewersOf(rooms', r) = ViewersOf(rooms, r)
                     /\ \E i \in Emits(sent', "host-ready") :
                            /\ sent'[i].via = RoomName(r)
                            /\ Members(rooms', r) \ {c} \subseteq sent'[i].rcpts
              /\ (last'.role = "viewer") =>
                     /\ HostOf(rooms', r) = HostOf(rooms, r)
                     /\ ViewersOf(rooms', r) = Append(ViewersOf(rooms, r), c)
                     /\ (HostOf(rooms, r) # NULL) =>
                            \E i \in Got(sent', "viewer-joined", HostOf(rooms, r)) :
                                sent'[i].peer = c]_vars

\* ---- C20 ---------------------------------------------------------------
\* C20: a join-room whose role is absent or is neither 'host' nor 'viewer'
\* creates no room and changes none, and neither joined nor viewer-joined is
\* emitted for it.
C20_BadRoleIsDropped ==
    [][(last'.kind = "join-room" /\ ~NoPayload(last') /\ last'.role \notin {"host", "viewer"}) =>
          /\ rooms' = rooms
          /\ Emits(sent', "joined") = {}
          /\ Emits(sent', "viewer-joined") = {}]_vars

\* ---- C21 ---------------------------------------------------------------
\* C21: a signal or frame with target t is written to no connection but the
\* one whose socket id is t, whatever rooms have been joined.
C21_OneRecipient ==
    (last.kind \in {"signal", "frame"} /\ ~NoPayload(last)) =>
        \A i \in 1..Len(sent) :
            sent[i].rcpts \subseteq {t \in Conns : last.to = ConnName(t)}

\* ---- C22 ---------------------------------------------------------------
\* c is host of no room and is among the viewers of one
OnlyViewer(rs, c) ==
    /\ \A r \in RoomIds : HostOf(rs, r) # c
    /\ \E r \in RoomIds : c \in Range(ViewersOf(rs, r))

\* C22: the disconnect of a connection that is viewer only emits nothing,
\* leaves the host of every room as it is and takes the id of the connection,
\* and nothing else, out of the viewers of every room.
C22_ViewerDeparture ==
    [][(last'.kind = "disconnect" /\ OnlyViewer(rooms, last'.conn)) =>
          /\ sent' = <<>>
          /\ \A r \in RoomIds :
                 /\ HostOf(rooms', r) = HostOf(rooms, r)
                 /\ ViewersOf(rooms', r) =
                        SelectSeq(ViewersOf(rooms, r), LAMBDA id : id # last'.conn)]_vars

\* a connection that was host nowhere has disconnected: nothing was emitted,
\* the room it was the only member of is gone, a room with a host remains
C22_Witness ==
    /\ last.kind = "disconnect"
    /\ sent = <<>>
    /\ last.gone # {}
    /\ \E r \in DOMAIN rooms : rooms[r].host # NULL

LiveProcs == {p \in Procs : procs[p] = "running"}

\* C25: in the ffmpeg host at most one child exists as a process at any
\* time, and whenever a child runs that has not been told to stop,
\* ffmpegProcess refers to it (so no close event of an older child has
\* cleared the reference to it).
C25_OneFfmpeg ==
    /\ Cardinality(AliveProcs) <= 1
    /\ \A p \in LiveProcs : ffmpegProcess = p

\* ---- C26 ---------------------------------------------------------------
\* the capture loops that are waiting for their screenshot
Shooting(ls) == {l \in Loops : ls[l] = "shot"}

\* C26: in the screenshot host two capture loops are never at work at once,
\* not even waiting for a screenshot each, and a frame is emitted only while
\* connected is true, that is never between a disconnect and the next
\* viewer-joined.
C26_OneLoop ==
    [][/\ Cardinality(Shooting(loops')) <= 1
       /\ (frame' # frame) => connected]_vars

============================================================================
